---- MODULE Spec2Model ----
(***************************************************************************)
(* Demand forecasting: the training pipeline (demand_forecasting_train.py) *)
(* and the Flask inference service (app.py).                               *)
(*                                                                         *)
(* Numbers: every numeric field is an integer here.  A model prediction is *)
(* an integer number of thousandths, a rounded demand an integer number of *)
(* hundredths.  A JSON object is a sequence of <<key, value>> pairs, a     *)
(* Python dict that is iterated (row) is a sequence of <<key, value>>      *)
(* pairs in insertion order.                                               *)
(***************************************************************************)
EXTENDS Integers, Sequences, FiniteSets, TLC

(***************************************************************************)
(* Bounds of the model.                                                    *)
(***************************************************************************)
MaxBatchLen == 4      \* longest JSON array posted to /predict/batch
MaxBatchEnv == 3      \* largest MAX_BATCH_SIZE the environment configures
MaxRows     == 6      \* most rows of the training data
MaxMetric   == 2      \* largest value of a held-out metric
NumCallers  == 3      \* threads calling create_app()

(***************************************************************************)
(* Sequence helpers.                                                       *)
(***************************************************************************)
Range(s) == {s[i] : i \in 1..Len(s)}

RECURSIVE SumSeq(_)
SumSeq(s) == IF s = <<>> THEN 0 ELSE Head(s) + SumSeq(Tail(s))

Reverse(s) == [i \in 1..Len(s) |-> s[Len(s) + 1 - i]]

(***************************************************************************)
(* The request schema (app.py, PredictSchema).                             *)
(***************************************************************************)
VALID_CATEGORIES  == {"Electronics", "Clothing", "Furniture", "Groceries", "Toys"}
VALID_REGIONS     == {"North", "South", "East", "West"}
VALID_WEATHER     == {"Sunny", "Rainy", "Snowy", "Cloudy", "Windy"}
VALID_SEASONALITY == {"Spring", "Summer", "Autumn", "Winter"}

\* The declared fields, in declaration order.
SchemaFields ==
    << "date", "category", "region", "inventory_level", "units_sold",
       "units_ordered", "price", "discount", "weather_condition", "promotion",
       "competitor_pricing", "seasonality", "epidemic" >>

\* Every field but units_sold (load_default=0) is required.
RequiredFields == Range(SchemaFields) \ {"units_sold"}

(***************************************************************************)
(* Calendar arithmetic of datetime.date.                                   *)
(***************************************************************************)
IsLeap(y) == (y % 4 = 0 /\ y % 100 # 0) \/ y % 400 = 0

DaysInMonth(y, m) ==
    IF m = 2 THEN (IF IsLeap(y) THEN 29 ELSE 28)
    ELSE IF m \in {4, 6, 9, 11} THEN 30 ELSE 31

\* date.toordinal(): days since 0000-12-31.
Ordinal(y, m, d) ==
    LET py == y - 1
        before == SumSeq([k \in 1..(m - 1) |-> DaysInMonth(y, k)])
    IN  365 * py + (py \div 4) - (py \div 100) + (py \div 400) + before + d

\* date.weekday(): Monday is 0.
Weekday(y, m, d) == (Ordinal(y, m, d) + 6) % 7

\* The ordinal of the Monday that starts ISO week 1 of year y.
IsoWeek1Monday(y) ==
    LET firstday == Ordinal(y, 1, 1)
        firstweekday == (firstday + 6) % 7
        monday == firstday - firstweekday
    IN  IF firstweekday > 3 THEN monday + 7 ELSE monday

\* date.isocalendar()[1]: the ISO week number.
IsoWeek(y, m, d) ==
    LET today == Ordinal(y, m, d)
        w1 == IsoWeek1Monday(y)
    IN  IF today < w1
        THEN ((today - IsoWeek1Monday(y - 1)) \div 7) + 1
        ELSE IF (today - w1) \div 7 >= 52 /\ today >= IsoWeek1Monday(y + 1)
             THEN 1
             ELSE ((today - w1) \div 7) + 1

\* fields.Date(format="%Y-%m-%d"): a date string names a day of the calendar.
IsDate(v) == /\ v[2] \in 1..12
             /\ v[3] \in 1..DaysInMonth(v[1], v[2])

(***************************************************************************)
(* JSON objects and schema validation (predict_schema.load).               *)
(***************************************************************************)
\* A parsed JSON value posted as a record: an object, or anything else.
IsObject(item) == item.kind = "object"

ItemKeys(item) == {item.pairs[i][1] : i \in 1..Len(item.pairs)}

\* json parsing keeps the last value given for a key.
ItemGet(item, key) ==
    LET idx == {i \in 1..Len(item.pairs) : item.pairs[i][1] = key}
        last == CHOOSE i \in idx : \A j \in idx : j <= i
    IN  item.pairs[last][2]

\* The validators of one field, applied to a value of the field's type.
FieldOk(key, v) ==
    CASE key = "date"               -> IsDate(v)
      [] key = "category"           -> v \in VALID_CATEGORIES
      [] key = "region"             -> v \in VALID_REGIONS
      [] key = "weather_condition"  -> v \in VALID_WEATHER
      [] key = "seasonality"        -> v \in VALID_SEASONALITY
      [] key = "discount"           -> v >= 0 /\ v <= 100
      [] key = "promotion"          -> v \in {0, 1}
      [] key = "epidemic"           -> v \in {0, 1}
      [] OTHER                      -> v >= 0

\* err.messages: the fields that violate the schema (unknown keys included);
\* a value that is no object is reported under "_schema".
ValidationErrors(item) ==
    IF ~IsObject(item) THEN {"_schema"}
    ELSE LET keys == ItemKeys(item)
         IN  (keys \ Range(SchemaFields))
             \cup (RequiredFields \ keys)
             \cup {k \in keys \cap Range(SchemaFields) : ~FieldOk(k, ItemGet(item, k))}

IsValid(item) == ValidationErrors(item) = {}

\* predict_schema.load of a valid item: the deserialized dict.
SchemaLoad(item) ==
    [k \in Range(SchemaFields) |->
        IF k \in ItemKeys(item) THEN ItemGet(item, k) ELSE 0]

(***************************************************************************)
(* Training: preprocess (demand_forecasting_train.py).                     *)
(***************************************************************************)
CalendarColumns == << "year", "month", "day", "week", "dayofweek", "quarter" >>

CategoricalColumns == << "Category", "Region", "Weather Condition", "Seasonality" >>

DroppedColumns == {"Date", "Store ID", "Product ID"}

\* list(X.columns): the columns of the CSV that are kept, in the CSV's order,
\* then the calendar columns in the order preprocess adds them.
FeatureNamesOf(csvColumns) ==
    SelectSeq(csvColumns, LAMBDA c : c \notin DroppedColumns \cup {"Demand"})
        \o CalendarColumns

\* Every label of the categorical columns, in the sorted order of np.unique.
SortedLabels ==
    << "Autumn", "Clothing", "Cloudy", "East", "Electronics", "Furniture",
       "Groceries", "North", "Rainy", "Snowy", "South", "Spring", "Summer",
       "Sunny", "Toys", "West", "Windy", "Winter" >>

\* LabelEncoder().fit: classes_ is the sorted distinct labels of the column.
LabelEncoderFit(labels) == SelectSeq(SortedLabels, LAMBDA l : l \in labels)

\* le_map of preprocess: one fitted encoder per categorical column.
FitEncoders(vocab) ==
    [c \in Range(CategoricalColumns) |-> LabelEncoderFit(vocab[c])]

(***************************************************************************)
(* Serving: preprocess_input (app.py).                                     *)
(***************************************************************************)
\* A label that LabelEncoder.transform rejects with ValueError.
Unseen(le, raw) == raw \notin Range(le)

\* le.transform([raw])[0]: the index of raw in classes_.
LabelIndex(le, raw) == (CHOOSE i \in 1..Len(le) : le[i] = raw) - 1

\* An encoder that gives an unseen label the next free index, silently.
EncodeNoFallback(le, raw) ==
    [code |-> IF Unseen(le, raw) THEN Len(le) ELSE LabelIndex(le, raw),
     warned |-> FALSE]

\* The try/except around le.transform: the code and whether a warning is logged.
EncodeLabel(le, raw) ==
    IF Unseen(le, raw)
    THEN [code |-> 0, warned |-> TRUE]
    ELSE [code |-> LabelIndex(le, raw), warned |-> FALSE]

\* col_key_map, in insertion order.
ColKeyMap ==
    << <<"Category", "category">>, <<"Region", "region">>,
       <<"Weather Condition", "weather_condition">>,
       <<"Seasonality", "seasonality">> >>

\* The row dict before the categorical columns are added, in insertion order.
NumericRow(data) ==
    LET dt == data["date"]
    IN  << <<"Inventory Level",    data["inventory_level"]>>,
           <<"Units Sold",         data["units_sold"]>>,
           <<"Units Ordered",      data["units_ordered"]>>,
           <<"Price",              data["price"]>>,
           <<"Discount",           data["discount"]>>,
           <<"Promotion",          data["promotion"]>>,
           <<"Competitor Pricing", data["competitor_pricing"]>>,
           <<"Epidemic",           data["epidemic"]>>,
           <<"year",               dt[1]>>,
           <<"month",              dt[2]>>,
           <<"day",                dt[3]>>,
           <<"week",               IsoWeek(dt[1], dt[2], dt[3])>>,
           <<"dayofweek",          Weekday(dt[1], dt[2], dt[3])>>,
           <<"quarter",            ((dt[2] - 1) \div 3) + 1>> >>

\* The loop over col_key_map: the encoded categorical columns, appended.
EncodedRow(data, le_map) ==
    [i \in 1..Len(ColKeyMap) |->
        << ColKeyMap[i][1],
           EncodeLabel(le_map[ColKeyMap[i][1]], data[ColKeyMap[i][2]]).code >>]

BuildRow(data, le_map) == NumericRow(data) \o EncodedRow(data, le_map)

\* The warnings the loop logs: <<raw, col>> for each unseen label, in order.
RowWarnings(data, le_map) ==
    LET all == [i \in 1..Len(ColKeyMap) |->
                   << data[ColKeyMap[i][2]], ColKeyMap[i][1] >>]
    IN  SelectSeq(all, LAMBDA w : EncodeLabel(le_map[w[2]], w[1]).warned)

\* row[name] of the insertion-ordered dict.
RowGet(row, name) == row[CHOOSE i \in 1..Len(row) : row[i][1] = name][2]

\* pd.DataFrame([row]).values: the columns in the row's insertion order.
SelectByPosition(row, feature_names) ==
    [i \in 1..Len(feature_names) |-> row[i][2]]

\* pd.DataFrame([row])[feature_names].values: the columns picked by name.
SelectColumns(row, feature_names) ==
    [i \in 1..Len(feature_names) |-> RowGet(row, feature_names[i])]

\* preprocess_input: the single row of the returned array.
preprocess_input(data, artifacts) ==
    SelectColumns(BuildRow(data, artifacts.le_map), artifacts.feature_names)

(***************************************************************************)
(* The fitted objects, as far as the service uses them.                    *)
(***************************************************************************)
\* StandardScaler.transform of one row: (x - mean_) / scale_, column by column.
ScalerTransform(scaler, x) ==
    [i \in 1..Len(x) |-> (x[i] - scaler.mean[i]) \div scaler.scale[i]]

\* model.predict of one row, in thousandths.  The estimators are black boxes
\* that predict each row of a matrix from that row alone and read the columns
\* by position; the weights stand for the fitted parameters.
PredictRow(model, x) ==
    (model.bias + SumSeq([i \in 1..Len(x) |-> i * x[i]])) % 100000

\* model.predict(X): one prediction per row of X.
ModelPredict(model, X) == [r \in 1..Len(X) |-> PredictRow(model, X[r])]

\* round(float(pred), 2): thousandths to hundredths, half to even.
Round2(p) ==
    LET q == p \div 10
        r == p % 10
    IN  IF r > 5 \/ (r = 5 /\ q % 2 = 1) THEN q + 1 ELSE q

(***************************************************************************)
(* Serving: the request handlers of create_app (app.py).                   *)
(***************************************************************************)
\* What a handler does: the HTTP status and JSON body it returns, the matrices
\* it passes to model.predict, the warnings it logs and the number of
\* predict_schema.load calls it makes.
Outcome(status, body, calls, warns, loads) ==
    [status |-> status, body |-> body, calls |-> calls,
     warnings |-> warns, loads |-> loads]

\* POST /predict.  raw is the parsed body, or no JSON at all.
predict(req, artifacts) ==
    IF ~req.isJson
    THEN Outcome(400, [error |-> "Request body must be valid JSON"], <<>>, <<>>, 0)
    ELSE LET raw == req.items[1] IN
         IF ~IsValid(raw)
         THEN Outcome(422, [error |-> "Validation failed",
                            details |-> ValidationErrors(raw)], <<>>, <<>>, 1)
         ELSE LET data == SchemaLoad(raw)
                  X == << preprocess_input(data, artifacts) >>
                  pred == ModelPredict(artifacts.model, X)[1]
              IN  Outcome(200, [demand |-> Round2(pred)], << X >>,
                          RowWarnings(data, artifacts.le_map), 1)

\* The comparison with >= in place of >.
BatchTooLargeOffByOne(n, max_batch) == n >= max_batch

\* len(raw) > max_batch
BatchTooLarge(n, max_batch) == n > max_batch

\* valid_indices after the loop: the 0-based indices of the items that load.
ValidIndices(raw) ==
    SelectSeq([i \in 1..Len(raw) |-> i - 1], LAMBDA i : IsValid(raw[i + 1]))

\* rows after the loop: one transformed row per valid item, in input order.
BatchRows(raw, artifacts) ==
    LET vi == ValidIndices(raw)
    IN  [k \in 1..Len(vi) |->
            preprocess_input(SchemaLoad(raw[vi[k] + 1]), artifacts)]

\* results after the loop: None for a valid item, the error entry otherwise.
LoopResults(raw) ==
    [i \in 1..Len(raw) |->
        IF IsValid(raw[i])
        THEN [status |-> "none"]
        ELSE [demand |-> "null", status |-> "error",
              message |-> ValidationErrors(raw[i])]]

\* The warnings of the loop, item after item.
RECURSIVE BatchWarnings(_, _)
BatchWarnings(raw, artifacts) ==
    IF raw = <<>> THEN <<>>
    ELSE (IF IsValid(Head(raw))
          THEN RowWarnings(SchemaLoad(Head(raw)), artifacts.le_map)
          ELSE <<>>) \o BatchWarnings(Tail(raw), artifacts)

\* The same loop writing preds[0], as /predict does, for every valid index.
ZipAssignFirstPred(results, valid_indices, preds) ==
    [i \in 1..Len(results) |->
        IF \E k \in 1..Len(valid_indices) : valid_indices[k] = i - 1
        THEN [demand |-> Round2(preds[1]), status |-> "ok"]
        ELSE results[i]]

\* for idx, pred in zip(valid_indices, preds): results[idx] = {...}
ZipAssign(results, valid_indices, preds) ==
    [i \in 1..Len(results) |->
        IF \E k \in 1..Len(valid_indices) : valid_indices[k] = i - 1
        THEN LET k == CHOOSE k \in 1..Len(valid_indices) : valid_indices[k] = i - 1
             IN  [demand |-> Round2(preds[k]), status |-> "ok"]
        ELSE results[i]]

\* The batch handler without the try/except: one invalid item fails the batch.
predict_batch_abort(req, artifacts, max_batch) ==
    IF ~(req.isJson /\ req.isList)
    THEN Outcome(400, [error |-> "Batch endpoint expects a JSON array"], <<>>, <<>>, 0)
    ELSE LET raw == req.items IN
         IF BatchTooLarge(Len(raw), max_batch)
         THEN Outcome(413, [error |-> "Batch size exceeds limit"], <<>>, <<>>, 0)
         ELSE IF \E i \in 1..Len(raw) : ~IsValid(raw[i])
         THEN Outcome(422, [error |-> "Validation failed"], <<>>, <<>>, Len(raw))
         ELSE LET rows == BatchRows(raw, artifacts)
                  preds == ModelPredict(artifacts.model, rows)
              IN  Outcome(200,
                          ZipAssign(LoopResults(raw), ValidIndices(raw), preds),
                          IF rows = <<>> THEN <<>> ELSE << rows >>,
                          BatchWarnings(raw, artifacts), Len(raw))

\* POST /predict/batch.
predict_batch(req, artifacts, max_batch) ==
    IF ~(req.isJson /\ req.isList)
    THEN Outcome(400, [error |-> "Batch endpoint expects a JSON array"], <<>>, <<>>, 0)
    ELSE LET raw == req.items IN
         IF BatchTooLarge(Len(raw), max_batch)
         THEN Outcome(413, [error |-> "Batch size exceeds limit"], <<>>, <<>>, 0)
         ELSE LET rows == BatchRows(raw, artifacts)
                  preds == ModelPredict(artifacts.model, rows)
              IN  Outcome(200,
                          IF rows = <<>> THEN LoopResults(raw)
                          ELSE ZipAssign(LoopResults(raw), ValidIndices(raw), preds),
                          IF rows = <<>> THEN <<>> ELSE << rows >>,
                          BatchWarnings(raw, artifacts), Len(raw))

(***************************************************************************)
(* Serving: load_artifacts.                                                *)
(***************************************************************************)
FileNames == {"best_model.pkl", "scaler.pkl", "label_encoders.pkl", "feature_names.pkl"}

\* The artifacts of a process that has loaded nothing: None for each member.
NoneBundle ==
    [model |-> [type |-> "NoneType", bias |-> 0, fit_on |-> "none"],
     scaler |-> [mean |-> <<>>, scale |-> <<>>],
     le_map |-> [c \in Range(CategoricalColumns) |-> <<>>],
     feature_names |-> <<>>]

\* A loader that leaves None where a file is missing instead of raising.
LoadIgnoringMissing(disk, present) ==
    [ok |-> TRUE,
     bundle |->
       [model |-> IF "best_model.pkl" \in present
                  THEN disk.model ELSE NoneBundle.model,
        scaler |-> IF "scaler.pkl" \in present
                   THEN disk.scaler ELSE NoneBundle.scaler,
        le_map |-> IF "label_encoders.pkl" \in present
                   THEN disk.le_map ELSE NoneBundle.le_map,
        feature_names |-> IF "feature_names.pkl" \in present
                          THEN disk.feature_names ELSE NoneBundle.feature_names]]

\* The body of load_artifacts: four joblib.load calls; any of them raises when
\* its file is missing or cannot be read, and then nothing is returned.
LoadBody(disk, present) ==
    IF present = FileNames
    THEN [ok |-> TRUE, bundle |-> disk]
    ELSE [ok |-> FALSE, bundle |-> NoneBundle]

(***************************************************************************)
(* Training: the data and the steps of main().                             *)
(***************************************************************************)
\* Column orders of sales_data.csv.
CsvColumnOrders ==
    { << "Date", "Store ID", "Product ID", "Category", "Region",
         "Inventory Level", "Units Sold", "Units Ordered", "Price", "Discount",
         "Weather Condition", "Promotion", "Competitor Pricing", "Seasonality",
         "Epidemic", "Demand" >>,
      << "Demand", "Epidemic", "Seasonality", "Competitor Pricing", "Promotion",
         "Weather Condition", "Discount", "Price", "Units Ordered", "Units Sold",
         "Inventory Level", "Region", "Category", "Product ID", "Store ID",
         "Date" >>,
      << "Store ID", "Product ID", "Date", "Inventory Level", "Units Sold",
         "Units Ordered", "Price", "Discount", "Promotion", "Competitor Pricing",
         "Epidemic", "Demand", "Category", "Region", "Weather Condition",
         "Seasonality" >> }

Cycle(labels, i) == labels[((i - 1) % Len(labels)) + 1]

\* The i-th historical record, oldest first.
CsvRow(i) ==
    [ Date |-> << 2022, ((i - 1) % 12) + 1, i >>,
      Category |-> Cycle(<< "Toys", "Clothing", "Furniture", "Groceries",
                            "Electronics" >>, i),
      Region |-> Cycle(<< "North", "South", "East", "West" >>, i),
      WeatherCondition |-> Cycle(<< "Sunny", "Rainy", "Snowy", "Cloudy",
                                    "Windy" >>, i),
      Seasonality |-> Cycle(<< "Winter", "Spring", "Summer", "Autumn" >>, i),
      InventoryLevel |-> 100 + 10 * i,
      UnitsSold |-> 3 * i,
      UnitsOrdered |-> 5 * i,
      Price |-> 20 + i,
      Discount |-> (10 * i) % 30,
      Promotion |-> i % 2,
      CompetitorPricing |-> 19 + i,
      Epidemic |-> 0,
      Demand |-> 40 + 7 * i ]

\* load_data: a frame of n rows with its columns in the CSV's order.
load_data(csvColumns, n) ==
    [columns |-> csvColumns, rows |-> [i \in 1..n |-> CsvRow(i)]]

\* df[col] of one row.
Cell(r, col) ==
    CASE col = "Category"           -> r.Category
      [] col = "Region"             -> r.Region
      [] col = "Weather Condition"  -> r.WeatherCondition
      [] col = "Seasonality"        -> r.Seasonality
      [] col = "Inventory Level"    -> r.InventoryLevel
      [] col = "Units Sold"         -> r.UnitsSold
      [] col = "Units Ordered"      -> r.UnitsOrdered
      [] col = "Price"              -> r.Price
      [] col = "Discount"           -> r.Discount
      [] col = "Promotion"          -> r.Promotion
      [] col = "Competitor Pricing" -> r.CompetitorPricing
      [] col = "Epidemic"           -> r.Epidemic
      [] col = "year"               -> r.Date[1]
      [] col = "month"              -> r.Date[2]
      [] col = "day"                -> r.Date[3]
      [] col = "week"               -> IsoWeek(r.Date[1], r.Date[2], r.Date[3])
      [] col = "dayofweek"          -> Weekday(r.Date[1], r.Date[2], r.Date[3])
      [] col = "quarter"            -> ((r.Date[2] - 1) \div 3) + 1

\* preprocess: X (one row of feature values per record, columns in the order
\* of feature_names), y and the fitted encoders.
preprocess(df) ==
    LET names == FeatureNamesOf(df.columns)
        vocab == [c \in Range(CategoricalColumns) |->
                     {Cell(df.rows[i], c) : i \in 1..Len(df.rows)}]
        le_map == FitEncoders(vocab)
        value(r, c) == IF c \in Range(CategoricalColumns)
                       THEN LabelIndex(le_map[c], Cell(r, c))
                       ELSE Cell(r, c)
    IN  [X |-> [i \in 1..Len(df.rows) |->
                   [j \in 1..Len(names) |-> value(df.rows[i], names[j])]],
         y |-> [i \in 1..Len(df.rows) |-> df.rows[i].Demand],
         le_map |-> le_map,
         feature_names |-> names]

\* test_ratio = 0.2, as the fraction TestRatioNum / RatioDen.
TestRatioNum == 2
RatioDen == 10

\* s.iloc[:k] and s.iloc[k:]
ILocBefore(s, k) == [i \in 1..k |-> s[i]]
ILocFrom(s, k) == [i \in 1..(Len(s) - k) |-> s[k + i]]

\* int(n * test_ratio): the ratio taken for the training share.
SplitIndexByTestRatio(n) == (n * TestRatioNum) \div RatioDen

\* int(n * (1 - test_ratio)).  The double 1 - 0.2 is the double 0.8, and the
\* double product n * 0.8 truncates to the integer part of 8n/10 for every n
\* below 2^50.
SplitIndex(n) == (n * (RatioDen - TestRatioNum)) \div RatioDen

time_split(X, y) ==
    LET split_idx == SplitIndex(Len(X))
    IN  [X_train |-> ILocBefore(X, split_idx), X_test |-> ILocFrom(X, split_idx),
         y_train |-> ILocBefore(y, split_idx), y_test |-> ILocFrom(y, split_idx)]

\* The integer square root.
ISqrt(v) == CHOOSE r \in 0..v : r * r <= v /\ v < (r + 1) * (r + 1)

\* StandardScaler().fit(rows): the mean and the standard deviation of each
\* column, a zero deviation replaced by 1.
ScalerFit(rows) ==
    LET n == Len(rows)
        col(j) == [i \in 1..n |-> rows[i][j]]
        mean(j) == SumSeq(col(j)) \div n
        var(j) == SumSeq([i \in 1..n |-> (rows[i][j] - mean(j)) * (rows[i][j] - mean(j))]) \div n
        sd(j) == ISqrt(var(j))
    IN  [mean |-> [j \in 1..Len(rows[1]) |-> mean(j)],
         scale |-> [j \in 1..Len(rows[1]) |-> IF sd(j) = 0 THEN 1 ELSE sd(j)]]

\* scale: the scaler is fit on the training rows and applied to both subsets.
scale(X_train, X_test) ==
    LET scaler == ScalerFit(X_train)
    IN  [X_train_sc |-> [i \in 1..Len(X_train) |-> ScalerTransform(scaler, X_train[i])],
         X_test_sc |-> [i \in 1..Len(X_test) |-> ScalerTransform(scaler, X_test[i])],
         scaler |-> scaler]

ModelNames == << "LinearRegression", "RandomForest", "XGBoost" >>

\* The first row that holds the minimum MAE.
pick_best_by_MAE(results) ==
    LET k == CHOOSE k \in 1..Len(results) :
                 /\ \A j \in 1..Len(results) : results[k].MAE <= results[j].MAE
                 /\ \A j \in 1..(k - 1) : results[j].MAE > results[k].MAE
    IN  results[k].model

\* results_df.loc[results_df["RMSE"].idxmin()]["model"]: idxmin gives the first
\* row that holds the minimum.
pick_best(results) ==
    LET k == CHOOSE k \in 1..Len(results) :
                 /\ \A j \in 1..Len(results) : results[k].RMSE <= results[j].RMSE
                 /\ \A j \in 1..(k - 1) : results[j].RMSE > results[k].RMSE
    IN  results[k].model

\* The branches of main() on best_name: the model that is persisted, with its
\* class and the features it was fit on.
BestModel(best_name) ==
    IF best_name = "XGBoost"
    THEN [type |-> "XGBRegressor", bias |-> 300, fit_on |-> "raw"]
    ELSE IF best_name = "RandomForest"
    THEN [type |-> "RandomForestRegressor", bias |-> 200, fit_on |-> "raw"]
    ELSE [type |-> "LinearRegression", bias |-> 100, fit_on |-> "scaled"]

\* The four objects save_artifacts writes after a run of main() on n rows in
\* which best_name won.
TrainedBundle(csvColumns, n, best_name) ==
    LET p == preprocess(load_data(csvColumns, n))
        s == time_split(p.X, p.y)
    IN  [model |-> BestModel(best_name),
         scaler |-> scale(s.X_train, s.X_test).scaler,
         le_map |-> p.le_map,
         feature_names |-> p.feature_names]

(***************************************************************************)
(* State.                                                                  *)
(***************************************************************************)
VARIABLES
    \* the serving process
    disk,         \* the bundle the four artifact files hold
    present,      \* the artifact files that exist and can be loaded
    envMaxBatch,  \* the MAX_BATCH_SIZE environment variable
    appState,     \* "init", "serving" (create_app returned) or "crashed"
    artifacts,    \* the artifacts variable the handlers close over
    maxBatch,     \* app.config["MAX_BATCH_SIZE"]
    cache,        \* the lru_cache of load_artifacts: <<>>, or << the bundle
                  \* object it holds, with the load that made it >>
    loadCount,    \* how many times the body of load_artifacts has started
    rpc,          \* "idle", "received" or "responded"
    req,          \* the request being handled
    resp,         \* what its handler did
    \* threads calling create_app concurrently
    callers,
    \* the training run
    tpc, df, feat, split, scaled, results, best_name, saved

serveVars == << disk, present, envMaxBatch, appState, artifacts, maxBatch,
                cache, loadCount, rpc, req, resp >>
trainVars == << tpc, df, feat, split, scaled, results, best_name, saved >>
vars == << serveVars, callers, trainVars >>

(***************************************************************************)
(* The records and requests a client posts.                                *)
(***************************************************************************)
Object(pairs) == [kind |-> "object", pairs |-> pairs]

\* A valid record, its keys in the schema's order.
ItemA ==
    Object(<< <<"date", <<2024, 3, 15>> >>, <<"category", "Electronics">>,
              <<"region", "North">>, <<"inventory_level", 120>>,
              <<"units_sold", 30>>, <<"units_ordered", 50>>, <<"price", 33>>,
              <<"discount", 10>>, <<"weather_condition", "Sunny">>,
              <<"promotion", 1>>, <<"competitor_pricing", 31>>,
              <<"seasonality", "Spring">>, <<"epidemic", 0>> >>)

\* A valid record with its keys in another order and units_sold left out.
ItemB ==
    Object(<< <<"epidemic", 1>>, <<"seasonality", "Winter">>,
              <<"competitor_pricing", 6>>, <<"promotion", 0>>,
              <<"weather_condition", "Windy">>, <<"discount", 100>>,
              <<"price", 5>>, <<"units_ordered", 0>>, <<"inventory_level", 7>>,
              <<"region", "West">>, <<"category", "Toys">>,
              <<"date", <<2021, 1, 2>> >> >>)

\* ItemA with its discount out of range.
ItemC ==
    Object([i \in 1..Len(ItemA.pairs) |->
               IF ItemA.pairs[i][1] = "discount"
               THEN <<"discount", 150>> ELSE ItemA.pairs[i]])

\* No price, a day that does not exist and a key the schema does not know.
ItemD ==
    Object(<< <<"date", <<2023, 2, 30>> >>, <<"category", "Clothing">>,
              <<"region", "South">>, <<"inventory_level", 1>>,
              <<"units_ordered", 2>>, <<"discount", 0>>,
              <<"weather_condition", "Rainy">>, <<"promotion", 0>>,
              <<"competitor_pricing", 3>>, <<"seasonality", "Summer">>,
              <<"epidemic", 0>>, <<"store_id", 4>> >>)

\* A JSON value that is no object.
ItemE == [kind |-> "scalar", pairs |-> <<>>]

Items == {ItemA, ItemB, ItemC, ItemD, ItemE}

NoReq == [path |-> "", isJson |-> FALSE, isList |-> FALSE, items |-> <<>>]
NoResp == Outcome(0, <<>>, <<>>, <<>>, 0)

PredictRequests ==
    {[path |-> "/predict", isJson |-> TRUE, isList |-> FALSE, items |-> << it >>] :
        it \in Items}
    \cup {[path |-> "/predict", isJson |-> FALSE, isList |-> FALSE, items |-> <<>>]}

BatchRequests ==
    {[path |-> "/predict/batch", isJson |-> TRUE, isList |-> TRUE, items |-> s] :
        s \in UNION {[1..n -> Items] : n \in 0..MaxBatchLen}}
    \cup {[path |-> "/predict/batch", isJson |-> TRUE, isList |-> FALSE,
           items |-> << ItemA >>],
          [path |-> "/predict/batch", isJson |-> FALSE, isList |-> FALSE,
           items |-> <<>>]}

\* The bundles a training run can have left on disk.
Bundles ==
    {TrainedBundle(c, n, ModelNames[m]) :
        c \in CsvColumnOrders, n \in {3, 6}, m \in 1..Len(ModelNames)}

(***************************************************************************)
(* The serving process: __main__, create_app and the request handlers.     *)
(***************************************************************************)
TrainIdle ==
    /\ tpc = "off" /\ df = <<>> /\ feat = <<>> /\ split = <<>>
    /\ scaled = <<>> /\ results = <<>> /\ best_name = "" /\ saved = <<>>

Init ==
    /\ disk \in Bundles
    /\ present \in SUBSET FileNames
    /\ envMaxBatch \in 0..MaxBatchEnv
    /\ appState = "init"
    /\ artifacts = NoneBundle
    /\ maxBatch = 0
    /\ cache = <<>>
    /\ loadCount = 0
    /\ rpc = "idle"
    /\ req = NoReq
    /\ resp = NoResp
    /\ callers = <<>>
    /\ TrainIdle

\* create_app(), called once by __main__: the configuration is read, then
\* load_artifacts() runs (the cache is empty); an exception of the load leaves
\* create_app and ends the process before application.run.
CreateApp ==
    /\ appState = "init"
    /\ maxBatch' = envMaxBatch
    /\ loadCount' = loadCount + 1
    /\ LET r == LoadBody(disk, present) IN
         IF r.ok
         THEN /\ cache' = << [bundle |-> r.bundle, load |-> loadCount + 1] >>
              /\ artifacts' = r.bundle
              /\ appState' = "serving"
         ELSE /\ appState' = "crashed"
              /\ UNCHANGED << cache, artifacts >>
    /\ UNCHANGED << disk, present, envMaxBatch, rpc, req, resp, callers, trainVars >>

\* A client posts a request to the running application.
Receive ==
    /\ appState = "serving"
    /\ rpc = "idle"
    /\ req' \in PredictRequests \cup BatchRequests
    /\ rpc' = "received"
    /\ UNCHANGED << disk, present, envMaxBatch, appState, artifacts, maxBatch,
                    cache, loadCount, resp, callers, trainVars >>

HandlePredict ==
    /\ rpc = "received"
    /\ req.path = "/predict"
    /\ resp' = predict(req, artifacts)
    /\ rpc' = "responded"
    /\ UNCHANGED << disk, present, envMaxBatch, appState, artifacts, maxBatch,
                    cache, loadCount, req, callers, trainVars >>

HandleBatch ==
    /\ rpc = "received"
    /\ req.path = "/predict/batch"
    /\ resp' = predict_batch(req, artifacts, maxBatch)
    /\ rpc' = "responded"
    /\ UNCHANGED << disk, present, envMaxBatch, appState, artifacts, maxBatch,
                    cache, loadCount, req, callers, trainVars >>

\* The response is sent and the request context is popped.
Return ==
    /\ rpc = "responded"
    /\ rpc' = "idle"
    /\ req' = NoReq
    /\ resp' = NoResp
    /\ UNCHANGED << disk, present, envMaxBatch, appState, artifacts, maxBatch,
                    cache, loadCount, callers, trainVars >>

Next == CreateApp \/ Receive \/ HandlePredict \/ HandleBatch \/ Return

Spec == Init /\ [][Next]_vars

(***************************************************************************)
(* Properties of the serving process.                                      *)
(***************************************************************************)
\* The posted records that pass validation, in input order.
ValidItems == SelectSeq(req.items, IsValid)

\* A handler has answered a well-formed request that it did not reject whole.
Answered == rpc = "responded" /\ resp.status = 200

BatchAnswered == Answered /\ req.path = "/predict/batch"

\* The value the feature called name has for a validated record.
FeatureValue(data, le_map, name) ==
    LET dt == data["date"]
        encoded(col, key) == IF data[key] \in Range(le_map[col])
                             THEN LabelIndex(le_map[col], data[key]) ELSE 0
    IN  CASE name = "Inventory Level"    -> data["inventory_level"]
          [] name = "Units Sold"         -> data["units_sold"]
          [] name = "Units Ordered"      -> data["units_ordered"]
          [] name = "Price"              -> data["price"]
          [] name = "Discount"           -> data["discount"]
          [] name = "Promotion"          -> data["promotion"]
          [] name = "Competitor Pricing" -> data["competitor_pricing"]
          [] name = "Epidemic"           -> data["epidemic"]
          [] name = "year"               -> dt[1]
          [] name = "month"              -> dt[2]
          [] name = "day"                -> dt[3]
          [] name = "week"               -> IsoWeek(dt[1], dt[2], dt[3])
          [] name = "dayofweek"          -> Weekday(dt[1], dt[2], dt[3])
          [] name = "quarter"            -> ((dt[2] - 1) \div 3) + 1
          [] name = "Category"           -> encoded("Category", "category")
          [] name = "Region"             -> encoded("Region", "region")
          [] name = "Weather Condition"  -> encoded("Weather Condition", "weather_condition")
          [] name = "Seasonality"        -> encoded("Seasonality", "seasonality")

\* The position of a column in the bundle's feature_names.
ColumnOf(name) ==
    CHOOSE i \in 1..Len(artifacts.feature_names) : artifacts.feature_names[i] = name

\* C1: every row a handler passes to model.predict belongs to one validated
\* record, has as many columns as feature_names, and holds in column i the
\* value of the feature feature_names[i]; the same record with its keys in
\* the opposite order transforms to the same row.
C1_RowFollowsFeatureNames ==
    Answered =>
        /\ Len(resp.calls) = (IF ValidItems = <<>> THEN 0 ELSE 1)
        /\ \A c \in 1..Len(resp.calls) :
            /\ Len(resp.calls[c]) = Len(ValidItems)
            /\ \A r \in 1..Len(ValidItems) :
                LET row == resp.calls[c][r]
                    item == ValidItems[r]
                IN  /\ Len(row) = Len(artifacts.feature_names)
                    /\ \A i \in 1..Len(row) :
                          row[i] = FeatureValue(SchemaLoad(item), artifacts.le_map,
                                                artifacts.feature_names[i])
                    /\ row = preprocess_input(
                                 SchemaLoad(Object(Reverse(item.pairs))), artifacts)

\* A record whose keys are not in the order of the row mapping has been
\* transformed for a bundle whose feature order differs from that mapping.
C1_Witness ==
    /\ Answered
    /\ ItemB \in Range(ValidItems)
    /\ resp.calls # <<>>
    /\ artifacts.feature_names[1] = "Epidemic"

\* C2: when the loaded model is the linear one, which training fits on scaled
\* features, the rows passed to model.predict are the scaler's transform of
\* the feature rows.
C2_LinearModelGetsScaledRows ==
    (Answered /\ artifacts.model.fit_on = "scaled") =>
        \A c \in 1..Len(resp.calls) : \A r \in 1..Len(resp.calls[c]) :
            resp.calls[c][r] =
                ScalerTransform(artifacts.scaler,
                    preprocess_input(SchemaLoad(ValidItems[r]), artifacts))

\* C3: a valid record is answered whatever its labels; a label the encoder
\* has not seen is encoded as 0 with a warning logged, a label it has seen is
\* encoded by its index in classes_ with no warning; the row keeps the length
\* of feature_names.
C3_UnseenLabelFallsBack ==
    /\ (rpc = "responded" /\ req.path = "/predict" /\ req.isJson
            /\ IsValid(req.items[1])) => resp.status = 200
    /\ Answered =>
        \A r \in 1..Len(ValidItems) : \A m \in 1..Len(ColKeyMap) :
            LET col == ColKeyMap[m][1]
                raw == SchemaLoad(ValidItems[r])[ColKeyMap[m][2]]
                le == artifacts.le_map[col]
                row == resp.calls[1][r]
            IN  /\ Len(row) = Len(artifacts.feature_names)
                /\ raw \notin Range(le) =>
                      /\ row[ColumnOf(col)] = 0
                      /\ << raw, col >> \in Range(resp.warnings)
                /\ raw \in Range(le) =>
                      /\ le[row[ColumnOf(col)] + 1] = raw
                      /\ << raw, col >> \notin Range(resp.warnings)

\* One answered record has a label the encoder never saw and a label it saw.
C3_Witness ==
    /\ Answered
    /\ \E r \in 1..Len(ValidItems) :
        LET data == SchemaLoad(ValidItems[r])
        IN  /\ data["category"] \notin Range(artifacts.le_map["Category"])
            /\ data["seasonality"] \in Range(artifacts.le_map["Seasonality"])
            /\ << data["category"], "Category" >> \in Range(resp.warnings)

\* A JSON array within the batch limit was posted to /predict/batch.
BatchWithinLimit ==
    /\ rpc = "responded" /\ req.path = "/predict/batch"
    /\ req.isJson /\ req.isList
    /\ Len(req.items) <= maxBatch

\* C4: the answer to a batch of n items within the limit is an array of n
\* entries; entry i is "ok" with a numeric demand exactly when item i is
\* valid, and otherwise "error" with a null demand and the item's validation
\* message.
C4_BatchAlignedWithInput ==
    BatchWithinLimit =>
        /\ resp.status = 200
        /\ Len(resp.body) = Len(req.items)
        /\ \A i \in 1..Len(req.items) :
            /\ resp.body[i].status = "ok" <=> IsValid(req.items[i])
            /\ IsValid(req.items[i]) =>
                  resp.body[i] = [demand |-> resp.body[i].demand, status |-> "ok"]
                  /\ resp.body[i].demand \in Int
            /\ ~IsValid(req.items[i]) =>
                  resp.body[i] = [demand |-> "null", status |-> "error",
                                  message |-> ValidationErrors(req.items[i])]

\* A batch of three: valid, invalid, valid.
C4_Witness ==
    /\ BatchWithinLimit
    /\ Len(req.items) = 3
    /\ IsValid(req.items[1]) /\ ~IsValid(req.items[2]) /\ IsValid(req.items[3])
    /\ resp.body[1].status = "ok" /\ resp.body[2].status = "error"
    /\ resp.body[3].status = "ok"

\* C5: a batch as long as the limit is answered with one result per item; a
\* longer one is rejected whole with status 413, with no results, no record
\* validated or transformed and no call of model.predict.
C5_BatchLimit ==
    (rpc = "responded" /\ req.path = "/predict/batch" /\ req.isJson /\ req.isList) =>
        /\ Len(req.items) = maxBatch =>
              /\ resp.status = 200
              /\ Len(resp.body) = Len(req.items)
              /\ resp.loads = Len(req.items)
        /\ Len(req.items) > maxBatch =>
              /\ resp.status = 413
              /\ DOMAIN resp.body = {"error"}
              /\ resp.loads = 0
              /\ resp.calls = <<>>
              /\ resp.warnings = <<>>

\* A batch one longer than a positive limit, holding valid records.
C5_Witness ==
    /\ rpc = "responded" /\ req.path = "/predict/batch" /\ req.isList
    /\ maxBatch >= 1
    /\ Len(req.items) = maxBatch + 1
    /\ \E i \in 1..Len(req.items) : IsValid(req.items[i])
    /\ resp.status = 413

\* C7: the application serves only with the whole bundle loaded; with any of
\* the four files missing create_app fails, the process never serves, no
\* request is received and no response of any kind is produced.
C7_MissingFileFailsStartup ==
    /\ appState = "serving" => (present = FileNames /\ artifacts = disk)
    /\ rpc # "idle" => appState = "serving"
    /\ present # FileNames =>
          /\ appState \in {"init", "crashed"}
          /\ rpc = "idle" /\ req = NoReq /\ resp = NoResp
          /\ artifacts = NoneBundle
    /\ (appState = "crashed") => present # FileNames

\* create_app has failed with exactly one file missing.
C7_Witness ==
    /\ appState = "crashed"
    /\ Cardinality(present) = 3
    /\ loadCount = 1

\* C10: the demand at the index of a valid record of a batch is the demand
\* /predict returns for that record with the same bundle.
C10_BatchDemandEqualsSingle ==
    BatchAnswered =>
        \A i \in 1..Len(req.items) :
            IsValid(req.items[i]) =>
                resp.body[i].demand =
                    predict([path |-> "/predict", isJson |-> TRUE,
                             isList |-> FALSE, items |-> << req.items[i] >>],
                            artifacts).body.demand

\* Two different valid records around an invalid one.
C10_Witness ==
    /\ BatchAnswered
    /\ Len(req.items) = 3
    /\ req.items[1] = ItemB /\ req.items[2] = ItemD /\ req.items[3] = ItemA
    /\ resp.body[1].demand # resp.body[3].demand

(***************************************************************************)
(* Concurrent first calls of create_app: load_artifacts under lru_cache.   *)
(* The wrapper looks the key up, calls the function without holding the    *)
(* cache lock on a miss, and then stores the result unless the key has     *)
(* been stored meanwhile; either way the caller gets the object its own    *)
(* call made.  An exception of the function is not cached.                 *)
(***************************************************************************)
ServeIdle ==
    /\ envMaxBatch = 0 /\ appState = "init" /\ artifacts = NoneBundle
    /\ maxBatch = 0 /\ rpc = "idle" /\ req = NoReq /\ resp = NoResp

InitLoad ==
    /\ disk \in Bundles
    /\ present \in {FileNames} \cup {FileNames \ {f} : f \in FileNames}
    /\ cache = <<>>
    /\ loadCount = 0
    /\ callers = [t \in 1..NumCallers |-> [pc |-> "start", got |-> <<>>]]
    /\ ServeIdle
    /\ TrainIdle

\* load_artifacts(): the lookup in the cache.
Lookup(t) ==
    /\ callers[t].pc = "start"
    /\ callers' = [callers EXCEPT ![t] =
                      IF cache # <<>>
                      THEN [pc |-> "done", got |-> cache]
                      ELSE [pc |-> "miss", got |-> <<>>]]
    /\ UNCHANGED << serveVars, trainVars >>

\* The body of load_artifacts, after a miss.
RunBody(t) ==
    /\ callers[t].pc = "miss"
    /\ loadCount' = loadCount + 1
    /\ LET r == LoadBody(disk, present) IN
         callers' = [callers EXCEPT ![t] =
                        IF r.ok
                        THEN [pc |-> "loaded",
                              got |-> << [bundle |-> r.bundle, load |-> loadCount + 1] >>]
                        ELSE [pc |-> "raised", got |-> <<>>]]
    /\ UNCHANGED << disk, present, envMaxBatch, appState, artifacts, maxBatch,
                    cache, rpc, req, resp, trainVars >>

\* The wrapper stores the result if the key is still absent, and returns it.
Store(t) ==
    /\ callers[t].pc = "loaded"
    /\ cache' = IF cache = <<>> THEN callers[t].got ELSE cache
    /\ callers' = [callers EXCEPT ![t].pc = "done"]
    /\ UNCHANGED << disk, present, envMaxBatch, appState, artifacts, maxBatch,
                    loadCount, rpc, req, resp, trainVars >>

NextLoad == \E t \in 1..NumCallers : Lookup(t) \/ RunBody(t) \/ Store(t)

SpecLoad == InitLoad /\ [][NextLoad]_vars

\* C6: the body of load_artifacts runs at most once, and all callers that
\* have returned hold the one cached bundle object.
C6_LoadedAtMostOnce ==
    present = FileNames =>
        /\ loadCount <= 1
        /\ \A t \in 1..NumCallers :
              callers[t].pc = "done" => callers[t].got = cache

(***************************************************************************)
(* The training run: main().                                               *)
(***************************************************************************)
\* The held-out metrics of one candidate, in the units of the model.
MetricTriples ==
    [MAE : {0, MaxMetric}, RMSE : 0..MaxMetric, R2 : {0, MaxMetric}]

\* evaluate: the result row of one candidate.
evaluate(name, m) == [model |-> name, MAE |-> m.MAE, RMSE |-> m.RMSE, R2 |-> m.R2]

ServeOff ==
    /\ disk = NoneBundle /\ present = {} /\ cache = <<>> /\ loadCount = 0
    /\ callers = <<>>
    /\ ServeIdle

InitTrain ==
    /\ tpc = "start"
    /\ df = <<>> /\ feat = <<>> /\ split = <<>> /\ scaled = <<>>
    /\ results = <<>> /\ best_name = "" /\ saved = <<>>
    /\ ServeOff

LoadData ==
    /\ tpc = "start"
    /\ \E c \in CsvColumnOrders, n \in 0..MaxRows : df' = load_data(c, n)
    /\ tpc' = "loaded"
    /\ UNCHANGED << feat, split, scaled, results, best_name, saved,
                    serveVars, callers >>

Preprocess ==
    /\ tpc = "loaded"
    /\ feat' = preprocess(df)
    /\ tpc' = "preprocessed"
    /\ UNCHANGED << df, split, scaled, results, best_name, saved,
                    serveVars, callers >>

TimeSplit ==
    /\ tpc = "preprocessed"
    /\ split' = time_split(feat.X, feat.y)
    /\ tpc' = "split"
    /\ UNCHANGED << df, feat, scaled, results, best_name, saved,
                    serveVars, callers >>

\* scale(X_train, X_test); StandardScaler.fit raises on an empty training
\* subset and the run ends.
Scale ==
    /\ tpc = "split"
    /\ IF split.X_train = <<>>
       THEN tpc' = "crashed" /\ UNCHANGED scaled
       ELSE tpc' = "scaled" /\ scaled' = scale(split.X_train, split.X_test)
    /\ UNCHANGED << df, feat, split, results, best_name, saved,
                    serveVars, callers >>

\* train_models: the three candidates are fit and evaluated on the held-out
\* rows; the metrics are whatever the fitted estimators give.
TrainModels ==
    /\ tpc = "scaled"
    /\ \E m \in [1..Len(ModelNames) -> MetricTriples] :
          results' = [k \in 1..Len(ModelNames) |-> evaluate(ModelNames[k], m[k])]
    /\ tpc' = "trained"
    /\ UNCHANGED << df, feat, split, scaled, best_name, saved,
                    serveVars, callers >>

PickBest ==
    /\ tpc = "trained"
    /\ best_name' = pick_best(results)
    /\ tpc' = "picked"
    /\ UNCHANGED << df, feat, split, scaled, results, saved,
                    serveVars, callers >>

\* The winner is tuned (or kept, for the linear model) and save_artifacts
\* writes the four objects.
SaveArtifacts ==
    /\ tpc = "picked"
    /\ saved' = [model |-> BestModel(best_name), scaler |-> scaled.scaler,
                 le_map |-> feat.le_map, feature_names |-> feat.feature_names]
    /\ tpc' = "saved"
    /\ UNCHANGED << df, feat, split, scaled, results, best_name,
                    serveVars, callers >>

NextTrain ==
    \/ LoadData \/ Preprocess \/ TimeSplit \/ Scale
    \/ TrainModels \/ PickBest \/ SaveArtifacts

SpecTrain == InitTrain /\ [][NextTrain]_vars

\* C8: the name pick_best returns is that of a candidate whose RMSE no other
\* candidate's RMSE is below.
C8_WinnerHasMinimumRMSE ==
    tpc \in {"picked", "saved"} =>
        \E k \in 1..Len(results) :
            /\ results[k].model = best_name
            /\ \A j \in 1..Len(results) : results[k].RMSE <= results[j].RMSE

\* The winner by RMSE is beaten on MAE by one candidate and on R2 by one.
C8_Witness ==
    /\ tpc = "picked"
    /\ \E k \in 1..Len(results) :
        /\ results[k].model = best_name
        /\ \A j \in 1..Len(results) : j # k => results[k].RMSE < results[j].RMSE
        /\ \E j \in 1..Len(results) : results[j].MAE < results[k].MAE
        /\ \E j \in 1..Len(results) : results[j].R2 > results[k].R2

\* C9: with N records the training subset is the first floor(N * 0.8) records
\* in their order, the test subset is the others in their order, and no
\* record at or after the split index is in the training subset.
C9_ChronologicalSplit ==
    tpc \in {"split", "scaled", "trained", "picked", "saved", "crashed"} =>
        LET N == Len(feat.X)
            k == Len(split.X_train)
        IN  /\ 5 * k <= 4 * N /\ 4 * N < 5 * (k + 1)
            /\ Len(split.X_test) = N - k
            /\ Len(split.y_train) = k /\ Len(split.y_test) = N - k
            /\ \A p \in 1..k :
                  split.X_train[p] = feat.X[p] /\ split.y_train[p] = feat.y[p]
            /\ \A p \in 1..(N - k) :
                  split.X_test[p] = feat.X[k + p] /\ split.y_test[p] = feat.y[k + p]
            /\ \A q \in (k + 1)..N : feat.X[q] \notin Range(split.X_train)

\* Six records, a number 0.8 does not divide evenly: four train, two test.
C9_Witness ==
    /\ tpc = "split"
    /\ Len(feat.X) = 6
    /\ Len(split.X_train) = 4
    /\ Len(split.X_test) = 2

====
